---- MODULE Spec2Model ----
(***************************************************************************)
(* One run of LinkedInPoster.post_to_linkedin (src/linkedin_poster.py) as  *)
(* a state machine.  pc is the position of the run inside the method and   *)
(* the methods it calls; the browser, the page and the clock are the       *)
(* environment, whose answers are the inputs chosen with \E.               *)
(*                                                                         *)
(* Fault model.  Every WebDriver call that loads, reads or changes a page  *)
(* may raise; the code's try/except blocks decide where the exception      *)
(* lands.  A call that raises has had no effect on the page.  A locator    *)
(* that finds nothing is an ordinary answer, not a fault.  driver.quit()   *)
(* and the cookie file's reads, writes and removal are taken to work,      *)
(* except that the cookie file may hold bytes that do not unpickle.  The   *)
(* log write of lines 407-417 may raise, before the file exists or while   *)
(* it is being written.                                                    *)
(***************************************************************************)
EXTENDS Integers, Sequences, FiniteSets, TLC

\* ---------------------------------------------------------------- bounds
\* The longest cookie list in the stored file when login_to_linkedin is
\* studied alone (SpecLogin).
MaxCookies == 2
\* The longest cookie list driver.get_cookies() returns, and the longest
\* stored list at the start of a whole run (Spec).
MaxSession == 1
\* Expiry times and clock readings range over 0..MaxTime.
MaxTime == 1
\* The longest text handed to format_post (SpecFormat), in characters.
MaxText == 4
\* The most entries a search source yields (SpecSearch).
MaxItems == 2

\* -------------------------------------------------------------- constants
\* Line 518: an upper-case line longer than this is not a header.
HeaderMaxLen == 50
\* src/SearchTool.py line 36: max_retries of _search_serpapi.
max_retries == 5
\* src/SearchTool.py line 59: the status the except clause retries on.
RateLimited == 429
\* essential_cookies of save_cookies.
EssentialCookies == {"li_at", "JSESSIONID"}
\* The cookie names of the model: the essential ones and one other.
CookieNames == EssentialCookies \cup {"lang"}
\* login_indicators of check_login_status has four class names.
NumLoginIndicators == 4
\* Each logical element of create_post has three locators; there are three
\* success_indicators.
NumLocators == 3

\* The arguments __init__ adds to self.options.
InitOptions ==
    << "--no-sandbox", "--disable-dev-shm-usage", "--disable-notifications",
       "--disable-blink-features=AutomationControlled" >>

\* A cookie record: 'expiry' is an optional key (has_expiry); expiry is 0 when
\* the key is absent.
Cookie ==
    [name : CookieNames, has_expiry : {TRUE}, expiry : 0..MaxTime]
    \cup [name : CookieNames, has_expiry : {FALSE}, expiry : {0}]

SeqsUpTo(S, n) == UNION {[1..k -> S] : k \in 0..n}

CookieLists == SeqsUpTo(Cookie, MaxCookies)
SessionLists == SeqsUpTo(Cookie, MaxSession)

\* The persisted credential file linkedin_cookies.pkl: absent, unreadable
\* (its bytes do not unpickle), or a pickled list of cookie records.
AbsentFile == [exists |-> FALSE, readable |-> TRUE, cookies |-> << >>]
CorruptFile == [exists |-> TRUE, readable |-> FALSE, cookies |-> << >>]
FileOf(cs) == [exists |-> TRUE, readable |-> TRUE, cookies |-> cs]
Files == {AbsentFile, CorruptFile} \cup {FileOf(cs) : cs \in CookieLists}
RunFiles == {AbsentFile, CorruptFile} \cup {FileOf(cs) : cs \in SessionLists}

\* What the model records of a load_cookies or save_cookies call: the file it
\* found, the clock it read, the cookie list it handled (read from the file,
\* or returned by driver.get_cookies()), the add_cookie calls it made (the
\* record passed and the stored record it came from) and what it returned.
NoCall ==
    [op |-> "none", now |-> 0, before |-> AbsentFile, cookies |-> << >>,
     added |-> << >>, ok |-> FALSE]
LoadCall(file, now, r) ==
    [op |-> "load", now |-> now, before |-> file, cookies |-> file.cookies,
     added |-> r.added, ok |-> r.ok]
SaveCall(file, cookies, s) ==
    [op |-> "save", now |-> 0, before |-> file, cookies |-> cookies,
     added |-> << >>, ok |-> s.ok]

VARIABLES
    pc,              \* position of the run
    options,         \* self.options: the argument list
    email,           \* self.email is set (truthy)
    password,        \* self.password is set (truthy)
    cookies_file,    \* the persisted credential file
    content_empty,   \* the formatted content has no non-blank paragraph
    browsers,        \* every browser process launched: launch options, quits
    driver,          \* post_to_linkedin's local `driver`: index in browsers, 0 = None
    store_call,      \* the load_cookies or save_cookies call made in the last step, if any
    load_calls,      \* number of load_cookies calls
    add_calls,       \* number of add_cookie calls
    navigations,     \* pages driver.get has loaded
    fields_filled,   \* login form fields send_keys has filled
    login_submitted, \* RETURN was sent to the login form
    config_error,    \* the ValueError of line 176 was raised
    cookie_verify,   \* check_login_status after cookie injection: "none", "ok", "failed"
    manual_verify,   \* check_login_status after manual login: "none", "ok", "failed"
    save_calls,      \* number of save_cookies calls
    save_result,     \* save_cookies' return value: "none", "true", "false"
    login_via,       \* how login_to_linkedin returned True: "none", "cookies", "manual"
    login_result,    \* login_to_linkedin: "none", "true", "false", "raised"
    trigger_tried,   \* compose-trigger locators tried, in order
    trigger_found,   \* the compose-trigger locator that succeeded, 0 = none
    editor_tried,
    editor_found,
    submit_tried,
    submit_found,
    injected,        \* paragraphs written into the editor
    submit_clicks,   \* clicks on the submit control
    verify_probes,   \* success landmarks probed, in order
    verified,        \* the landmark that was visible, 0 = none
    screenshots,     \* screenshot files written, by prefix
    markup_printed,  \* page_source[:1000] was printed
    diag_faults,     \* diagnostic calls of create_post that raised
    create_result,   \* create_post: "none", "true", "false", "raised"
    log_records,     \* files created under linkedin_logs in this run
    log_fault,       \* the log write: "none", "no_file", "partial"
    result           \* post_to_linkedin: "none", "true", "false"

login_vars ==
    << load_calls, add_calls, navigations, fields_filled,
       login_submitted, config_error, cookie_verify, manual_verify, save_calls,
       save_result, login_via, login_result >>

post_vars ==
    << trigger_tried, trigger_found, editor_tried, editor_found, submit_tried,
       submit_found, injected, submit_clicks, verify_probes, verified,
       screenshots, markup_printed, diag_faults, create_result >>

run_vars ==
    << options, email, password, content_empty, browsers, driver, log_records,
       log_fault, result >>

\* The formatter, studied on its own (SpecFormat): format_post is a pure
\* function of the text handed to it.
VARIABLES
    fpc,                \* "idle", "input", "formatted", "reformatted"
    content,            \* the text handed to format_post
    kinds,              \* how the loop of lines 511-547 treated each line
    formatted_sections, \* formatted_sections when the loop has ended (line 551)
    formatted,          \* the text format_post returned
    reformatted         \* the text format_post returned for `formatted`

format_vars == << fpc, content, kinds, formatted_sections, formatted, reformatted >>

\* search_internet of src/SearchTool.py, studied on its own (SpecSearch).
VARIABLES
    spc,            \* "idle", "serp", "news", "medium", "format", "done"
    attempt,        \* `attempt` of the loop of _search_serpapi
    serp_calls,     \* requests.get calls _search_serpapi has made
    last_status,    \* HTTP status of the last response, 0 = no response
    waits,          \* the time.sleep calls of _search_serpapi, in seconds
    serp_result,    \* _search_serpapi: "none", "list", "raised"
    serp_items,     \* entries _search_serpapi returned
    news_items,     \* entries _get_google_news returned
    medium_items,   \* entries _search_medium returned
    search_result   \* search_internet: "none", "text", "error"

search_vars ==
    << spc, attempt, serp_calls, last_status, waits, serp_result, serp_items,
       news_items, medium_items, search_result >>

\* The state outside post_to_linkedin's run.
tool_vars == << format_vars, search_vars >>

vars == << pc, cookies_file, store_call, login_vars, post_vars, run_vars, tool_vars >>

\* ------------------------------------------------------------ load_cookies
\* A variant of IsExpired: a record expiring exactly now counts as still valid.
IsExpiredStrictly(c, now) == c.has_expiry /\ c.expiry < now

\* Line 92: the record is skipped when it has an expiry at or before now.
IsExpired(c, now) == c.has_expiry /\ c.expiry <= now

\* Lines 95-96: expiry, expires and domain are popped; the name stays.
StripCookie(c) == [name |-> c.name]

\* Lines 88-97: the records kept, in file order.
valid_cookies(cookies, now) == SelectSeq(cookies, LAMBDA c : ~IsExpired(c, now))

\* A variant of NothingToLoad: the empty-list check is missing.
NeverNothingToLoad(valid) == FALSE

\* Lines 99-101: load_cookies gives up when nothing is left.
NothingToLoad(valid) == valid = << >>

\* load_cookies(driver) read at clock `now`: its return value and the
\* add_cookie calls it makes.  A failing add_cookie is caught per cookie
\* (lines 105-108) and changes neither.
load_cookies(file, now) ==
    IF ~file.exists \/ ~file.readable
    THEN [ok |-> FALSE, added |-> << >>]
    ELSE LET valid == valid_cookies(file.cookies, now)
         IN  IF NothingToLoad(valid)
             THEN [ok |-> FALSE, added |-> << >>]
             ELSE [ok |-> TRUE,
                   added |-> [i \in 1..Len(valid) |->
                                [cookie |-> StripCookie(valid[i]), origin |-> valid[i]]]]

\* ------------------------------------------------------------ save_cookies
\* A variant of HasEssential: any cookie at all is taken as essential.
HasAnyCookie(cookies) == cookies # << >>

\* Line 64: any(cookie['name'] in essential_cookies for cookie in cookies).
HasEssential(cookies) == \E i \in 1..Len(cookies) : cookies[i].name \in EssentialCookies

\* A variant of save_cookies: the file is opened for appending, so the new
\* records follow the old ones.
save_cookies_appending(file, get_fault, cookies) ==
    IF get_fault
    THEN [ok |-> FALSE, file |-> file]
    ELSE IF \E i \in 1..Len(cookies) : cookies[i].name \in EssentialCookies
         THEN [ok |-> TRUE, file |-> FileOf(file.cookies \o cookies)]
         ELSE [ok |-> FALSE, file |-> file]

\* save_cookies(driver): get_fault is driver.get_cookies() raising, cookies
\* its answer.  Returns the value and the file afterwards.
save_cookies(file, get_fault, cookies) ==
    IF get_fault
    THEN [ok |-> FALSE, file |-> file]
    ELSE IF HasEssential(cookies)
         THEN [ok |-> TRUE, file |-> FileOf(cookies)]
         ELSE [ok |-> FALSE, file |-> file]

\* ------------------------------------------------------- check_login_status
\* nav_ok: driver.get(feed) did not raise; on_feed: current_url starts with
\* the feed prefix; visible: the first indicator found displayed, 0 = none.
check_login_status(nav_ok, on_feed, visible) == nav_ok /\ on_feed /\ visible > 0

\* ------------------------------------------------------------------- Init
\* Nothing has happened yet in login_to_linkedin and create_post.
Fresh ==
    /\ store_call = NoCall
    /\ load_calls = 0
    /\ add_calls = 0
    /\ navigations = {}
    /\ fields_filled = {}
    /\ login_submitted = FALSE
    /\ config_error = FALSE
    /\ cookie_verify = "none"
    /\ manual_verify = "none"
    /\ save_calls = 0
    /\ save_result = "none"
    /\ login_via = "none"
    /\ login_result = "none"
    /\ trigger_tried = << >>
    /\ trigger_found = 0
    /\ editor_tried = << >>
    /\ editor_found = 0
    /\ submit_tried = << >>
    /\ submit_found = 0
    /\ injected = 0
    /\ submit_clicks = 0
    /\ verify_probes = << >>
    /\ verified = 0
    /\ screenshots = {}
    /\ markup_printed = FALSE
    /\ diag_faults = {}
    /\ create_result = "none"
    /\ log_records = 0
    /\ log_fault = "none"
    /\ result = "none"

\* format_post is not being studied: its variables rest.
FormatIdle ==
    /\ fpc = "idle"
    /\ content = << >>
    /\ kinds = << >>
    /\ formatted_sections = << >>
    /\ formatted = << >>
    /\ reformatted = << >>

\* search_internet is not being studied: its variables rest.
SearchIdle ==
    /\ spc = "idle"
    /\ attempt = 0
    /\ serp_calls = 0
    /\ last_status = 0
    /\ waits = << >>
    /\ serp_result = "none"
    /\ serp_items = 0
    /\ news_items = 0
    /\ medium_items = 0
    /\ search_result = "none"

\* A LinkedInPoster as __init__ leaves it (lines 17-34), about to run
\* post_to_linkedin.  The environment settings and the cookie file are as
\* the outside world left them.
Init ==
    /\ pc = "start"
    /\ options = InitOptions
    /\ email \in BOOLEAN
    /\ password \in BOOLEAN
    /\ cookies_file \in RunFiles
    /\ content_empty = FALSE
    /\ browsers = << >>
    /\ driver = 0
    /\ Fresh
    /\ FormatIdle
    /\ SearchIdle

\* ------------------------------------------------------- post_to_linkedin
\* Lines 421-423: the except clause of post_to_linkedin.
Fail ==
    /\ result' = "false"
    /\ pc' = "finally"

\* Lines 388-393: content is read (get_latest_post may raise) and formatted.
Prepare ==
    /\ pc = "start"
    /\ UNCHANGED tool_vars
    /\ store_call' = NoCall
    /\ \/ /\ Fail
          /\ UNCHANGED content_empty
       \/ /\ \E e \in BOOLEAN : content_empty' = e
          /\ pc' = "get_driver"
          /\ UNCHANGED result
    /\ UNCHANGED << cookies_file, login_vars, post_vars, options, email, password,
                    browsers, driver, log_records, log_fault >>

\* Line 39: the browser is launched with self.options as they are now.
Launched == Append(browsers, [options |-> options, quits |-> 0])

\* Line 51: '--headless' is added after the browser was launched.
OptionsAfterGetDriver == Append(options, "--headless")

\* Line 396 and get_driver, lines 36-53.
GetDriver ==
    /\ pc = "get_driver"
    /\ UNCHANGED tool_vars
    /\ store_call' = NoCall
    /\ \/ \* lines 38-39 raise: no browser process.
          /\ Fail
          /\ UNCHANGED << browsers, driver, options >>
       \/ \* line 42 raises: the process runs, `driver` of line 396 stays None.
          /\ browsers' = Launched
          /\ Fail
          /\ UNCHANGED << driver, options >>
       \/ /\ browsers' = Launched
          /\ driver' = Len(browsers) + 1
          /\ options' = OptionsAfterGetDriver
          /\ pc' = "maximize"
          /\ UNCHANGED result
    /\ UNCHANGED << cookies_file, login_vars, post_vars, email, password,
                    content_empty, log_records, log_fault >>

\* Line 397.
Maximize ==
    /\ pc = "maximize"
    /\ UNCHANGED tool_vars
    /\ store_call' = NoCall
    /\ \/ Fail
       \/ /\ pc' = "login_home"
          /\ UNCHANGED result
    /\ UNCHANGED << cookies_file, login_vars, post_vars, options, email, password,
                    content_empty, browsers, driver, log_records, log_fault >>

\* ------------------------------------------------------- login_to_linkedin
\* Lines 213-217: the outer except clause.  Reading driver.current_url there
\* may itself raise; the exception then leaves login_to_linkedin.
LoginExcept ==
    /\ pc = "login_except"
    /\ UNCHANGED tool_vars
    /\ store_call' = NoCall
    /\ \E url_fault \in BOOLEAN :
          login_result' = IF url_fault THEN "raised" ELSE "false"
    /\ pc' = "after_login"
    /\ UNCHANGED << cookies_file, post_vars, run_vars, load_calls,
                    add_calls, navigations, fields_filled, login_submitted,
                    config_error, cookie_verify, manual_verify, save_calls,
                    save_result, login_via >>

\* Lines 157-158: the home page is loaded.
LoginHome ==
    /\ pc = "login_home"
    /\ UNCHANGED tool_vars
    /\ store_call' = NoCall
    /\ \/ /\ pc' = "login_except"
          /\ UNCHANGED navigations
       \/ /\ navigations' = navigations \cup {"home"}
          /\ pc' = "try_cookies"
    /\ UNCHANGED << cookies_file, post_vars, run_vars, load_calls,
                    add_calls, fields_filled, login_submitted, config_error,
                    cookie_verify, manual_verify, save_calls, save_result, login_via, login_result >>

\* Lines 160-164: with a cookie file present, load_cookies runs at clock
\* reading `now`; when it returns True the page is refreshed (which may raise).
TryCookies ==
    /\ pc = "try_cookies"
    /\ UNCHANGED tool_vars
    /\ IF ~cookies_file.exists
       THEN /\ pc' = "manual_auth"
            /\ store_call' = NoCall
            /\ UNCHANGED << load_calls, add_calls >>
       ELSE \E now \in 0..MaxTime :
               LET r == load_cookies(cookies_file, now)
               IN  /\ store_call' = LoadCall(cookies_file, now, r)
                   /\ load_calls' = load_calls + 1
                   /\ add_calls' = add_calls + Len(r.added)
                   /\ IF r.ok
                      THEN \E refresh_fault \in BOOLEAN :
                              pc' = IF refresh_fault THEN "login_except" ELSE "cookie_verify"
                      ELSE pc' = "manual_auth"
    /\ UNCHANGED << cookies_file, post_vars, run_vars, navigations, fields_filled,
                    login_submitted, config_error, cookie_verify, manual_verify,
                    save_calls, save_result, login_via, login_result >>

\* A variant of FileAfterCookieFailure: os.remove is missing.
FileKeptAfterCookieFailure == cookies_file

\* Lines 171-172: the cookie file after a failed cookie login.
FileAfterCookieFailure == AbsentFile

\* A cookie login without the `return True` of line 169: after a successful
\* VerifyLogin the method goes on to the manual login.
CookieVerifyFallingThrough ==
    /\ pc = "cookie_verify"
    /\ UNCHANGED tool_vars
    /\ store_call' = NoCall
    /\ \E nav_ok, on_feed \in BOOLEAN, visible \in 0..NumLoginIndicators :
          /\ navigations' = IF nav_ok THEN navigations \cup {"feed"} ELSE navigations
          /\ IF check_login_status(nav_ok, on_feed, visible)
             THEN /\ cookie_verify' = "ok"
                  /\ UNCHANGED cookies_file
             ELSE /\ cookie_verify' = "failed"
                  /\ cookies_file' = FileAfterCookieFailure
    /\ pc' = "manual_auth"
    /\ UNCHANGED << post_vars, run_vars, load_calls, add_calls,
                    fields_filled, login_submitted, config_error, manual_verify,
                    save_calls, save_result, login_via, login_result >>

\* Lines 167-172: VerifyLogin after the cookies were injected.
CookieVerify ==
    /\ pc = "cookie_verify"
    /\ UNCHANGED tool_vars
    /\ store_call' = NoCall
    /\ \E nav_ok, on_feed \in BOOLEAN, visible \in 0..NumLoginIndicators :
          /\ navigations' = IF nav_ok THEN navigations \cup {"feed"} ELSE navigations
          /\ IF check_login_status(nav_ok, on_feed, visible)
             THEN /\ cookie_verify' = "ok"
                  /\ login_via' = "cookies"
                  /\ login_result' = "true"
                  /\ pc' = "after_login"
                  /\ UNCHANGED cookies_file
             ELSE /\ cookie_verify' = "failed"
                  /\ cookies_file' = FileAfterCookieFailure
                  /\ pc' = "manual_auth"
                  /\ UNCHANGED << login_via, login_result >>
    /\ UNCHANGED << post_vars, run_vars, load_calls, add_calls,
                    fields_filled, login_submitted, config_error, manual_verify,
                    save_calls, save_result >>

\* A variant of CredentialsMissing: only the identifier is checked.
EmailMissing == ~email

\* Line 175: not self.email or not self.password.
CredentialsMissing == ~email \/ ~password

\* Lines 174-180: the configuration check, then the login page is loaded.
ManualAuth ==
    /\ pc = "manual_auth"
    /\ UNCHANGED tool_vars
    /\ store_call' = NoCall
    /\ IF CredentialsMissing
       THEN /\ config_error' = TRUE
            /\ pc' = "login_except"
            /\ UNCHANGED navigations
       ELSE /\ UNCHANGED config_error
            /\ \/ /\ pc' = "login_except"
                  /\ UNCHANGED navigations
               \/ /\ navigations' = navigations \cup {"login"}
                  /\ pc' = "manual_fill"
    /\ UNCHANGED << cookies_file, post_vars, run_vars, load_calls,
                    add_calls, fields_filled, login_submitted, cookie_verify,
                    manual_verify, save_calls, save_result, login_via, login_result >>

\* Lines 183-197 and 209-211: `done` counts the completed interactions
\* (username, password, RETURN); a fault at any of them lands in the inner
\* except clause, which returns False.
ManualFill ==
    /\ pc = "manual_fill"
    /\ UNCHANGED tool_vars
    /\ store_call' = NoCall
    /\ \E done \in 0..3 :
          /\ fields_filled' = {f \in {"username", "password"} :
                                  \/ f = "username" /\ done >= 1
                                  \/ f = "password" /\ done >= 2}
          /\ login_submitted' = (done = 3)
          /\ IF done = 3
             THEN /\ pc' = "manual_verify"
                  /\ UNCHANGED login_result
             ELSE /\ login_result' = "false"
                  /\ pc' = "after_login"
    /\ UNCHANGED << cookies_file, post_vars, run_vars, load_calls,
                    add_calls, navigations, config_error, cookie_verify,
                    manual_verify, save_calls, save_result, login_via >>

\* Lines 199-207: VerifyLogin after the manual login; on success save_cookies
\* runs and login_to_linkedin returns True whatever save_cookies returned.
ManualVerify ==
    /\ pc = "manual_verify"
    /\ UNCHANGED tool_vars
    /\ \E nav_ok, on_feed \in BOOLEAN, visible \in 0..NumLoginIndicators :
          /\ navigations' = IF nav_ok THEN navigations \cup {"feed"} ELSE navigations
          /\ IF check_login_status(nav_ok, on_feed, visible)
             THEN \E get_fault \in BOOLEAN, cookies \in SessionLists :
                     LET s == save_cookies(cookies_file, get_fault, cookies)
                     IN  /\ ~get_fault \/ cookies = << >>
                         /\ manual_verify' = "ok"
                         /\ save_calls' = save_calls + 1
                         /\ store_call' = SaveCall(cookies_file, cookies, s)
                         /\ save_result' = IF s.ok THEN "true" ELSE "false"
                         /\ cookies_file' = s.file
                         /\ login_via' = "manual"
                         /\ login_result' = "true"
             ELSE /\ manual_verify' = "failed"
                  /\ login_result' = "false"
                  /\ store_call' = NoCall
                  /\ UNCHANGED << cookies_file, save_calls, save_result, login_via >>
    /\ pc' = "after_login"
    /\ UNCHANGED << post_vars, run_vars, load_calls, add_calls,
                    fields_filled, login_submitted, config_error, cookie_verify >>

\* A variant of LoginFailed: the return value of login_to_linkedin is ignored.
LoginNeverFailed == FALSE

\* Lines 400-401: a login that did not return True ends the run.
LoginFailed == login_result # "true"

AfterLogin ==
    /\ pc = "after_login"
    /\ UNCHANGED tool_vars
    /\ store_call' = NoCall
    /\ IF LoginFailed
       THEN Fail
       ELSE /\ pc' = "post_feed"
            /\ UNCHANGED result
    /\ UNCHANGED << cookies_file, login_vars, post_vars, options, email, password,
                    content_empty, browsers, driver, log_records, log_fault >>

\* ------------------------------------------------------------- create_post
\* The fallback chains of create_post: `answers[i]` says whether locator i
\* would succeed.  Each chain tries its locators in the listed order and
\* stops at the first success (the `if not found` guards).
FirstHit(answers) ==
    IF \E i \in 1..NumLocators : answers[i]
    THEN CHOOSE i \in 1..NumLocators :
            answers[i] /\ \A j \in 1..(i - 1) : ~answers[j]
    ELSE 0

\* A chain that goes on to the remaining locators after one has succeeded.
AllLocatorsTried(answers) == [i \in 1..NumLocators |-> i]

\* The locators a chain tries: each `if not found` guard (lines 238, 247,
\* 275, 282, 323, 330) skips the locators after the first success.
LocatorsTried(answers) ==
    [i \in 1..(IF FirstHit(answers) = 0 THEN NumLocators ELSE FirstHit(answers)) |-> i]

Answers == [1..NumLocators -> BOOLEAN]

\* A variant of Exhausted: the check after the chain is missing.
NeverExhausted(found) == FALSE

\* Lines 255, 288-289, 337-338: no locator of the chain succeeded.
Exhausted(found) == found = 0

\* Lines 223-224: the feed is loaded.
PostFeed ==
    /\ pc = "post_feed"
    /\ UNCHANGED tool_vars
    /\ store_call' = NoCall
    /\ \/ /\ pc' = "post_except"
          /\ UNCHANGED navigations
       \/ /\ navigations' = navigations \cup {"feed"}
          /\ pc' = "trigger"
    /\ UNCHANGED << cookies_file, post_vars, run_vars, load_calls,
                    add_calls, fields_filled, login_submitted, config_error,
                    cookie_verify, manual_verify, save_calls, save_result, login_via, login_result >>

\* Lines 226-261: the compose trigger is located and clicked.  On exhaustion
\* the pre_post_error screenshot is taken (the call may raise) and the
\* exception goes to the except clause of line 368.
Trigger ==
    /\ pc = "trigger"
    /\ UNCHANGED tool_vars
    /\ store_call' = NoCall
    /\ \E answers \in Answers :
          /\ trigger_tried' = LocatorsTried(answers)
          /\ trigger_found' = FirstHit(answers)
          /\ IF Exhausted(FirstHit(answers))
             THEN /\ \E shot_fault \in BOOLEAN :
                        IF shot_fault
                        THEN /\ diag_faults' = diag_faults \cup {"pre_screenshot"}
                             /\ UNCHANGED screenshots
                        ELSE /\ screenshots' = screenshots \cup {"pre_post_error"}
                             /\ UNCHANGED diag_faults
                  /\ pc' = "post_except"
             ELSE /\ pc' = "editor"
                  /\ UNCHANGED << screenshots, diag_faults >>
    /\ UNCHANGED << cookies_file, login_vars, run_vars, editor_tried, editor_found,
                    submit_tried, submit_found, injected, submit_clicks,
                    verify_probes, verified, markup_printed, create_result >>

\* Lines 263-289: the editor is located.
Editor ==
    /\ pc = "editor"
    /\ UNCHANGED tool_vars
    /\ store_call' = NoCall
    /\ \E answers \in Answers :
          /\ editor_tried' = LocatorsTried(answers)
          /\ editor_found' = FirstHit(answers)
          /\ pc' = IF Exhausted(FirstHit(answers)) THEN "post_except" ELSE "inject"
    /\ UNCHANGED << cookies_file, login_vars, run_vars, trigger_tried, trigger_found,
                    submit_tried, submit_found, injected, submit_clicks,
                    verify_probes, verified, screenshots, markup_printed,
                    diag_faults, create_result >>

\* Lines 291-310: the editor is cleared and each non-blank paragraph is
\* written into it.  The formatted content holds no blank line, so there is
\* at most one paragraph.
Inject ==
    /\ pc = "inject"
    /\ UNCHANGED tool_vars
    /\ store_call' = NoCall
    /\ \/ \* line 292 or line 303 raises.
          /\ pc' = "post_except"
          /\ UNCHANGED injected
       \/ /\ injected' = IF content_empty THEN injected ELSE injected + 1
          /\ pc' = "submit"
    /\ UNCHANGED << cookies_file, login_vars, run_vars, trigger_tried, trigger_found,
                    editor_tried, editor_found, submit_tried, submit_found,
                    submit_clicks, verify_probes, verified, screenshots,
                    markup_printed, diag_faults, create_result >>

\* Lines 312-344: the submit control is located and clicked.
Submit ==
    /\ pc = "submit"
    /\ UNCHANGED tool_vars
    /\ store_call' = NoCall
    /\ \E answers \in Answers :
          /\ submit_tried' = LocatorsTried(answers)
          /\ submit_found' = FirstHit(answers)
          /\ IF Exhausted(FirstHit(answers))
             THEN /\ pc' = "post_except"
                  /\ UNCHANGED submit_clicks
             ELSE \/ \* line 341 raises.
                     /\ pc' = "post_except"
                     /\ UNCHANGED submit_clicks
                  \/ /\ submit_clicks' = submit_clicks + 1
                     /\ pc' = "verify_post"
    /\ UNCHANGED << cookies_file, login_vars, run_vars, trigger_tried, trigger_found,
                    editor_tried, editor_found, injected, verify_probes, verified,
                    screenshots, markup_printed, diag_faults, create_result >>

\* A variant of VerifyResult: no visible landmark counts as a failed post.
VerifyResultStrict(hit) == IF hit > 0 THEN "true" ELSE "false"

\* Lines 353-366: what create_post returns after the landmarks were probed;
\* `hit` is the landmark found displayed, 0 when none was.
VerifyResult(hit) == IF hit > 0 THEN "true" ELSE "true"

\* Lines 346-366: the success landmarks are probed in order; a probe that
\* times out or finds a hidden element moves on to the next.
VerifyPost ==
    /\ pc = "verify_post"
    /\ UNCHANGED tool_vars
    /\ store_call' = NoCall
    /\ \E answers \in Answers :
          /\ verify_probes' = LocatorsTried(answers)
          /\ verified' = FirstHit(answers)
          /\ create_result' = VerifyResult(FirstHit(answers))
    /\ pc' = "after_create"
    /\ UNCHANGED << cookies_file, login_vars, run_vars, trigger_tried, trigger_found,
                    editor_tried, editor_found, submit_tried, submit_found,
                    injected, submit_clicks, screenshots, markup_printed,
                    diag_faults >>

\* An except clause that saves the screenshot but leaves out the page
\* markup of lines 378-379.
PostExceptWithoutMarkup ==
    /\ pc = "post_except"
    /\ UNCHANGED tool_vars
    /\ store_call' = NoCall
    /\ \/ /\ diag_faults' = diag_faults \cup {"current_url"}
          /\ create_result' = "raised"
          /\ UNCHANGED screenshots
       \/ /\ diag_faults' = diag_faults \cup {"error_screenshot"}
          /\ create_result' = "false"
          /\ UNCHANGED screenshots
       \/ /\ screenshots' = screenshots \cup {"error_screenshot"}
          /\ create_result' = "false"
          /\ UNCHANGED diag_faults
    /\ pc' = "after_create"
    /\ UNCHANGED << cookies_file, login_vars, run_vars, trigger_tried, trigger_found,
                    editor_tried, editor_found, submit_tried, submit_found,
                    injected, submit_clicks, verify_probes, verified, markup_printed >>

\* Lines 368-382: the except clause.  driver.current_url of line 370 is read
\* outside the inner try: when it raises, the exception leaves create_post.
\* The screenshot and the page markup are taken inside `try ... except: pass`.
PostExcept ==
    /\ pc = "post_except"
    /\ UNCHANGED tool_vars
    /\ store_call' = NoCall
    /\ \/ /\ diag_faults' = diag_faults \cup {"current_url"}
          /\ create_result' = "raised"
          /\ UNCHANGED << screenshots, markup_printed >>
       \/ /\ diag_faults' = diag_faults \cup {"error_screenshot"}
          /\ create_result' = "false"
          /\ UNCHANGED << screenshots, markup_printed >>
       \/ /\ screenshots' = screenshots \cup {"error_screenshot"}
          /\ diag_faults' = diag_faults \cup {"page_source"}
          /\ create_result' = "false"
          /\ UNCHANGED markup_printed
       \/ /\ screenshots' = screenshots \cup {"error_screenshot"}
          /\ markup_printed' = TRUE
          /\ create_result' = "false"
          /\ UNCHANGED diag_faults
    /\ pc' = "after_create"
    /\ UNCHANGED << cookies_file, login_vars, run_vars, trigger_tried, trigger_found,
                    editor_tried, editor_found, submit_tried, submit_found,
                    injected, submit_clicks, verify_probes, verified >>

\* A run that takes every create_post result for a success.
CreateNeverFailed == FALSE

\* Lines 404-405: a create_post that did not return True ends the run.
CreateFailed == create_result # "true"

\* Lines 407-417, how the log write can end: "none" is a write that
\* completed; "no_file" is os.makedirs (line 410) or open (line 413) raising,
\* which leaves no file; "partial" is f.write (lines 414-415) or the close of
\* the with block raising, which leaves the file open() created.
LogFaults == {"none", "no_file", "partial"}

\* Lines 403-423: the log record is written after create_post returned True.
\* The write is inside the try of line 387, so an exception of the write
\* reaches line 421 and the run returns False.
AfterCreate ==
    /\ pc = "after_create"
    /\ UNCHANGED tool_vars
    /\ store_call' = NoCall
    /\ IF CreateFailed
       THEN /\ Fail
            /\ UNCHANGED << log_records, log_fault >>
       ELSE \E f \in LogFaults :
                /\ log_fault' = f
                /\ log_records' = IF f = "no_file" THEN log_records ELSE log_records + 1
                /\ IF f = "none"
                   THEN /\ result' = "true"
                        /\ pc' = "finally"
                   ELSE Fail
    /\ UNCHANGED << cookies_file, login_vars, post_vars, options, email, password,
                    content_empty, browsers, driver >>

\* Lines 425-427: the finally clause.
QuitDriver ==
    IF driver # 0
    THEN [browsers EXCEPT ![driver].quits = @ + 1]
    ELSE browsers

Finally ==
    /\ pc = "finally"
    /\ UNCHANGED tool_vars
    /\ store_call' = NoCall
    /\ browsers' = QuitDriver
    /\ pc' = "done"
    /\ UNCHANGED << cookies_file, login_vars, post_vars, options, email, password,
                    content_empty, driver, log_records, log_fault,
                    result >>

Next ==
    \/ Prepare
    \/ GetDriver
    \/ Maximize
    \/ LoginHome
    \/ TryCookies
    \/ CookieVerify
    \/ ManualAuth
    \/ ManualFill
    \/ ManualVerify
    \/ LoginExcept
    \/ AfterLogin
    \/ PostFeed
    \/ Trigger
    \/ Editor
    \/ Inject
    \/ Submit
    \/ VerifyPost
    \/ PostExcept
    \/ AfterCreate
    \/ Finally

Spec == Init /\ [][Next]_vars

\* login_to_linkedin alone, called with a freshly launched and maximized
\* browser (the state post_to_linkedin is in at line 400).
InitLogin ==
    /\ pc = "login_home"
    /\ options = Append(InitOptions, "--headless")
    /\ email \in BOOLEAN
    /\ password \in BOOLEAN
    /\ cookies_file \in Files
    /\ content_empty = FALSE
    /\ browsers = << [options |-> InitOptions, quits |-> 0] >>
    /\ driver = 1
    /\ Fresh
    /\ FormatIdle
    /\ SearchIdle

NextLogin ==
    \/ LoginHome
    \/ TryCookies
    \/ CookieVerify
    \/ ManualAuth
    \/ ManualFill
    \/ ManualVerify
    \/ LoginExcept

SpecLogin == InitLogin /\ [][NextLogin]_vars

\* ============================================================ format_post
\* Lines 486-570.  A text is a sequence of characters.  The characters of
\* the model are the ones format_post tells apart:
\*   LF      the line break splitlines() splits on,
\*   " "     white space, which strip() removes,
\*   "#" "-" ":" "*"  themselves,
\*   Glyph   the string literal of lines 531-532, taken as one character:
\*           the source file holds the three characters U+00E2 U+20AC
\*           U+00A2 there (a bullet's UTF-8 bytes read as cp1252),
\*   Bullet  the bullet character U+2022, which the prompt of
\*           src/main.py lines 124-176 asks posts to use,
\*   Marker  one occurrence of a header_indicators keyword such as 'Why'
\*           (lines 500-507), taken as one character,
\*   "a"     a lower-case letter, "A" an upper-case letter,
\*   Block   a run of HeaderMaxLen upper-case letters, taken as one
\*           character.
LF == "\n"
Glyph == "@"
Bullet == "o"
Marker == "$"
Block == "W"
Chars == {LF, " ", "#", "-", ":", "*", Glyph, Bullet, Marker, "a", "A", Block}

\* The characters str.isupper() looks at: Glyph holds a lower-case letter
\* (U+00E2), the keywords hold letters of both cases.
Lower == {"a", Glyph, Marker}
Upper == {"A", Block, Marker}

\* The texts format_post is checked on.
Texts == SeqsUpTo(Chars, MaxText)

\* len(line), line 518.
Width(c) ==
    IF c = Block THEN HeaderMaxLen
    ELSE IF c \in {Glyph, Marker} THEN 3
    ELSE 1

RECURSIVE len(_)
len(s) == IF s = << >> THEN 0 ELSE Width(Head(s)) + len(Tail(s))

\* str.startswith, `in` and str.endswith for a one-character needle.
startswith(s, prefix) ==
    Len(s) >= Len(prefix) /\ SubSeq(s, 1, Len(prefix)) = prefix

contains(s, c) == \E i \in 1..Len(s) : s[i] = c

endswith(s, c) == s # << >> /\ s[Len(s)] = c

\* str.strip(): white space is removed from both ends.
WhiteSpace == {" ", LF}

strip(s) ==
    LET keep == {i \in 1..Len(s) : s[i] \notin WhiteSpace}
    IN  IF keep = {}
        THEN << >>
        ELSE SubSeq(s, CHOOSE i \in keep : \A j \in keep : i <= j,
                       CHOOSE i \in keep : \A j \in keep : j <= i)

\* str.isupper(): some cased character, and no lower-case one.
isupper(s) ==
    /\ \E i \in 1..Len(s) : s[i] \in Upper
    /\ \A i \in 1..Len(s) : s[i] \notin Lower

\* str.split(c): the pieces between the occurrences of c.
RECURSIVE split(_, _)
split(s, c) ==
    IF ~contains(s, c)
    THEN << s >>
    ELSE LET i == CHOOSE k \in 1..Len(s) : s[k] = c /\ \A j \in 1..(k - 1) : s[j] # c
         IN  << SubSeq(s, 1, i - 1) >> \o split(SubSeq(s, i + 1, Len(s)), c)

\* sep.join(parts).
RECURSIVE join(_, _)
join(parts, sep) ==
    IF parts = << >> THEN << >>
    ELSE IF Len(parts) = 1 THEN parts[1]
    ELSE parts[1] \o sep \o join(Tail(parts), sep)

\* Line 489: content.replace('**', ''), left to right, no overlap.
RECURSIVE remove_emphasis(_)
remove_emphasis(s) ==
    IF Len(s) < 2 THEN s
    ELSE IF s[1] = "*" /\ s[2] = "*" THEN remove_emphasis(SubSeq(s, 3, Len(s)))
    ELSE << s[1] >> \o remove_emphasis(Tail(s))

\* Line 492: the stripped lines that are not blank.  (splitlines() and
\* split(LF) differ only in a blank last line, which is dropped here.)
RECURSIVE nonblank(_)
nonblank(ls) ==
    IF ls = << >> THEN << >>
    ELSE IF strip(Head(ls)) = << >> THEN nonblank(Tail(ls))
    ELSE << strip(Head(ls)) >> \o nonblank(Tail(ls))

lines_of(text) == nonblank(split(remove_emphasis(text), LF))

\* Lines 499-508 and 516-520: i is the line's index in `lines`, from 0.
header_indicators == {":", Marker}

is_header(line, i) ==
    \/ \E c \in header_indicators : contains(line, c)
    \/ (i > 0 /\ len(line) <= HeaderMaxLen /\ isupper(line))
    \/ (i > 0 /\ endswith(line, ":"))

\* A formatter that knows the dash only.
is_dash(line) == startswith(line, << "-" >>)

\* Lines 531 and 533.
is_bullet(line) == startswith(line, << Glyph >>) \/ startswith(line, << "-" >>)

\* Line 539.
is_hashtag(line) == startswith(line, << "#" >>)

\* Lines 512-547: the branch of the loop body a line takes.
kind_of(line, i) ==
    IF startswith(line, << "-", "-", "-" >>) THEN "skipped"
    ELSE IF is_header(line, i) THEN "header"
    ELSE IF is_bullet(line) THEN "bullet"
    ELSE IF is_hashtag(line) THEN "hashtag"
    ELSE "plain"

line_kinds(lines) == [k \in 1..Len(lines) |-> kind_of(lines[k], k - 1)]

\* A formatter that forgets the open section instead of closing it.
flush_dropping(sections, current_section) == sections

\* Lines 524-526, 533-535, 541-543 and 550-551: current_section is closed.
flush(sections, current_section) ==
    IF current_section # << >>
    THEN Append(sections, join(current_section, << LF >>))
    ELSE sections

\* Lines 511-551: the loop, from line k of `lines` on.
RECURSIVE sections_from(_, _, _, _)
sections_from(lines, k, sections, current_section) ==
    IF k > Len(lines)
    THEN flush(sections, current_section)
    ELSE LET line == lines[k]
             kind == kind_of(line, k - 1)
         IN  IF kind = "skipped"
             THEN sections_from(lines, k + 1, sections, current_section)
             ELSE IF kind \in {"header", "hashtag"}
             THEN sections_from(lines, k + 1,
                                Append(flush(sections, current_section), line), << >>)
             ELSE IF kind = "bullet" /\ current_section # << >>
                     /\ ~is_bullet(current_section[Len(current_section)])
             THEN sections_from(lines, k + 1, flush(sections, current_section), << line >>)
             ELSE sections_from(lines, k + 1, sections, Append(current_section, line))

sections_of(text) == sections_from(lines_of(text), 1, << >>, << >>)

\* Lines 554-562: the sections, stripped, one per line; a blank one is left out.
RECURSIVE join_sections(_, _, _)
join_sections(sections, k, formatted_text) ==
    IF k > Len(sections) THEN formatted_text
    ELSE IF strip(sections[k]) = << >>
    THEN join_sections(sections, k + 1, formatted_text)
    ELSE join_sections(sections, k + 1,
             formatted_text \o (IF k > 1 THEN << LF >> ELSE << >>) \o strip(sections[k]))

\* A formatter that joins the hashtag parts as they are.
keep_all(parts) == parts

\* map(strip, parts), line 567.
strip_all(parts) == [k \in 1..Len(parts) |-> strip(parts[k])]

\* Lines 565-568: everything from the first '#' on becomes the hashtags.
with_hashtags(formatted_text) ==
    IF contains(formatted_text, "#")
    THEN LET parts == split(formatted_text, "#")
             main_content == parts[1]
             hashtags == join(strip_all(Tail(parts)), << " ", "#" >>)
         IN  strip(main_content) \o << LF, "#" >> \o hashtags
    ELSE formatted_text

\* Lines 486-570.
format_post(text) ==
    strip(with_hashtags(join_sections(sections_of(text), 1, << >>)))

\* The formatter is handed a text.
InitFormat ==
    /\ pc = "idle"
    /\ options = InitOptions
    /\ email = FALSE
    /\ password = FALSE
    /\ cookies_file = AbsentFile
    /\ content_empty = FALSE
    /\ browsers = << >>
    /\ driver = 0
    /\ Fresh
    /\ fpc = "input"
    /\ content \in Texts
    /\ kinds = << >>
    /\ formatted_sections = << >>
    /\ formatted = << >>
    /\ reformatted = << >>
    /\ SearchIdle

\* format_post(content) is called and returns.
FormatPost ==
    /\ fpc = "input"
    /\ fpc' = "formatted"
    /\ kinds' = line_kinds(lines_of(content))
    /\ formatted_sections' = sections_of(content)
    /\ formatted' = format_post(content)
    /\ UNCHANGED << content, reformatted >>
    /\ UNCHANGED << pc, cookies_file, store_call, login_vars, post_vars, run_vars, search_vars >>

\* format_post is called on the text it returned.
FormatAgain ==
    /\ fpc = "formatted"
    /\ fpc' = "reformatted"
    /\ reformatted' = format_post(formatted)
    /\ UNCHANGED << content, kinds, formatted_sections, formatted >>
    /\ UNCHANGED << pc, cookies_file, store_call, login_vars, post_vars, run_vars, search_vars >>

NextFormat ==
    \/ FormatPost
    \/ FormatAgain

SpecFormat == InitFormat /\ [][NextFormat]_vars

\* ======================================================== search_internet
\* src/SearchTool.py.  search_internet (lines 163-206) asks three sources
\* in turn; _search_serpapi (lines 33-66) is the first.  The environment is
\* the network: what requests.get does for SerpAPI, and how many entries
\* the other two sources yield.
\*
\* requests.get returns a Response for every HTTP status; it raises only
\* when no response was obtained (ConnectionError, Timeout, ...).
\* requests.exceptions.HTTPError is raised by Response.raise_for_status(),
\* which _search_serpapi never calls.  response.json() raises
\* JSONDecodeError when the body is not JSON.
Statuses == {200, 429, 500}

\* What one requests.get of line 46 meets.  The code never looks at the
\* status (lines 46-56), so a body of any shape may come with any status.
SerpAnswers ==
    {[response |-> FALSE, status |-> 0, is_json |-> FALSE, news_results |-> FALSE, items |-> 0]}
    \cup {[response |-> TRUE, status |-> s, is_json |-> FALSE, news_results |-> FALSE, items |-> 0] :
            s \in Statuses}
    \cup {[response |-> TRUE, status |-> s, is_json |-> TRUE, news_results |-> FALSE, items |-> 0] :
            s \in Statuses}
    \cup {[response |-> TRUE, status |-> s, is_json |-> TRUE, news_results |-> TRUE, items |-> n] :
            s \in Statuses, n \in 0..MaxItems}

\* Lines 46-47: the exception the try body raises for an answer, "none"
\* when it raises nothing.
raised_by(answer) ==
    IF ~answer.response THEN "ConnectionError"
    ELSE IF ~answer.is_json THEN "JSONDecodeError"
    ELSE "none"

\* Lines 58-65: what the except clause does with an exception of the try
\* body.
on_exception(exception, status) ==
    IF exception # "HTTPError" THEN "propagate"
    ELSE IF status = RateLimited THEN "retry"
    ELSE "return_empty"

\* Line 60: wait_time = 2 ** attempt.
wait_time(attempt_no) == 2 ^ attempt_no

\* _search_serpapi is about to be called by search_internet (line 168).
SearchStart ==
    /\ spc = "serp"
    /\ attempt = 0
    /\ serp_calls = 0
    /\ last_status = 0
    /\ waits = << >>
    /\ serp_result = "none"
    /\ serp_items = 0
    /\ news_items = 0
    /\ medium_items = 0
    /\ search_result = "none"

InitSearch ==
    /\ pc = "idle"
    /\ options = InitOptions
    /\ email = FALSE
    /\ password = FALSE
    /\ cookies_file = AbsentFile
    /\ content_empty = FALSE
    /\ browsers = << >>
    /\ driver = 0
    /\ Fresh
    /\ FormatIdle
    /\ SearchStart

\* Lines 37-66: one pass of the loop of _search_serpapi.
SearchSerpapi ==
    /\ spc = "serp"
    /\ attempt < max_retries
    /\ \E answer \in SerpAnswers :
          /\ serp_calls' = serp_calls + 1
          /\ last_status' = answer.status
          /\ IF raised_by(answer) = "none"
             THEN \* lines 48-57: the function returns a list.
                  /\ serp_result' = "list"
                  /\ serp_items' = IF answer.news_results THEN answer.items ELSE 0
                  /\ spc' = "news"
                  /\ UNCHANGED << attempt, waits, search_result >>
             ELSE LET handling == on_exception(raised_by(answer), answer.status)
                  IN  IF handling = "propagate"
                      THEN \* the exception reaches line 205.
                           /\ serp_result' = "raised"
                           /\ search_result' = "error"
                           /\ spc' = "done"
                           /\ UNCHANGED << attempt, waits, serp_items >>
                      ELSE IF handling = "return_empty"
                      THEN /\ serp_result' = "list"
                           /\ spc' = "news"
                           /\ UNCHANGED << attempt, waits, serp_items, search_result >>
                      ELSE \* lines 60-62, and lines 65-66 after the last pass.
                           /\ waits' = Append(waits, wait_time(attempt))
                           /\ attempt' = attempt + 1
                           /\ serp_result' = IF attempt + 1 = max_retries THEN "list" ELSE "none"
                           /\ spc' = IF attempt + 1 = max_retries THEN "news" ELSE "serp"
                           /\ UNCHANGED << serp_items, search_result >>
    /\ UNCHANGED << news_items, medium_items >>
    /\ UNCHANGED << pc, cookies_file, store_call, login_vars, post_vars, run_vars, format_vars >>

\* Lines 68-88: _get_google_news returns its entries, or [] on any fault.
GetGoogleNews ==
    /\ spc = "news"
    /\ \E n \in 0..MaxItems : news_items' = n
    /\ spc' = "medium"
    /\ UNCHANGED << attempt, serp_calls, last_status, waits, serp_result, serp_items,
                    medium_items, search_result >>
    /\ UNCHANGED << pc, cookies_file, store_call, login_vars, post_vars, run_vars, format_vars >>

\* Lines 120-152: _search_medium returns its entries, or [] on any fault.
SearchMedium ==
    /\ spc = "medium"
    /\ \E n \in 0..MaxItems : medium_items' = n
    /\ spc' = "format"
    /\ UNCHANGED << attempt, serp_calls, last_status, waits, serp_result, serp_items,
                    news_items, search_result >>
    /\ UNCHANGED << pc, cookies_file, store_call, login_vars, post_vars, run_vars, format_vars >>

\* Lines 173-203: the three lists are laid out as one text.
FormatResults ==
    /\ spc = "format"
    /\ search_result' = "text"
    /\ spc' = "done"
    /\ UNCHANGED << attempt, serp_calls, last_status, waits, serp_result, serp_items,
                    news_items, medium_items >>
    /\ UNCHANGED << pc, cookies_file, store_call, login_vars, post_vars, run_vars, format_vars >>

NextSearch ==
    \/ SearchSerpapi
    \/ GetGoogleNews
    \/ SearchMedium
    \/ FormatResults

SpecSearch == InitSearch /\ [][NextSearch]_vars

\* ================================================================= claims
\* The run has returned from create_post's locator chains with nothing found.
TriggerExhausted == Len(trigger_tried) = NumLocators /\ trigger_found = 0
EditorExhausted == Len(editor_tried) = NumLocators /\ editor_found = 0

\* The essential-cookie test, written out for the claims.
NamesEssential(cookies) ==
    \E i \in 1..Len(cookies) : cookies[i].name \in {"li_at", "JSESSIONID"}

\* Every record of the list has an expiry at or before t.
AllExpiredAt(cookies, t) ==
    \A i \in 1..Len(cookies) : cookies[i].has_expiry /\ cookies[i].expiry <= t

\* C1: when post_to_linkedin has returned, every browser process launched
\* during the run has been quit exactly once, whatever the exit path
\* (a fault inside get_driver after the launch included).
C1_EveryBrowserQuitOnce ==
    pc = "done" => \A i \in 1..Len(browsers) : browsers[i].quits = 1

\* C2: no record that load_cookies passes to add_cookie has an expiry at or
\* before the clock reading of that call.
C2_NoExpiredCookieInjected ==
    store_call.op = "load" =>
        \A i \in 1..Len(store_call.added) :
            LET c == store_call.added[i].origin
            IN  /\ \E j \in 1..Len(store_call.cookies) : store_call.cookies[j] = c
                /\ ~(c.has_expiry /\ c.expiry <= store_call.now)

\* C2 witness: a stored list of two records, one expiring exactly at the
\* clock reading and one valid; only the valid one was injected.
C2_Witness ==
    /\ store_call.op = "load"
    /\ store_call.ok
    /\ Len(store_call.cookies) = 2
    /\ store_call.cookies[1].has_expiry
    /\ store_call.cookies[1].expiry = store_call.now
    /\ Len(store_call.added) = 1
    /\ store_call.added[1].origin = store_call.cookies[2]

\* C3: save_cookies returns failure and leaves the file as it was whenever
\* the session's cookies hold no essential name; the file changes only when
\* an essential cookie is present.
C3_SaveNeedsEssentialCookie ==
    store_call.op = "save" =>
        /\ ~NamesEssential(store_call.cookies) =>
              ~store_call.ok /\ save_result = "false" /\ cookies_file = store_call.before
        /\ (store_call.ok \/ cookies_file # store_call.before) =>
              NamesEssential(store_call.cookies)

\* C3 witness: save_cookies was handed a non-empty cookie set without an
\* essential name while a cookie file existed, and refused.
C3_Witness ==
    /\ store_call.op = "save"
    /\ store_call.cookies # << >>
    /\ ~NamesEssential(store_call.cookies)
    /\ store_call.before.exists
    /\ ~store_call.ok
    /\ cookies_file = store_call.before

\* C4: when every stored record has expired at the time load_cookies reads
\* the clock, no cookie is injected, login_to_linkedin goes straight on to
\* ManualAuth, and no cookie-based VerifyLogin runs in the run.
C4_OnlyExpiredGoesToManualAuth ==
    /\ (/\ store_call.op = "load"
        /\ store_call.before.readable
        /\ AllExpiredAt(store_call.cookies, store_call.now))
       => /\ store_call.added = << >>
          /\ add_calls = 0
          /\ cookie_verify = "none"
          /\ pc = "manual_auth"
    /\ (load_calls > 0 /\ add_calls = 0) => cookie_verify = "none"

\* C4 witness: two stored records, both expired, and the run is at ManualAuth.
C4_Witness ==
    /\ store_call.op = "load"
    /\ store_call.before.readable
    /\ Len(store_call.cookies) = 2
    /\ AllExpiredAt(store_call.cookies, store_call.now)
    /\ pc = "manual_auth"
    /\ add_calls = 0

\* C6: a VerifyLogin that fails after stored cookies were injected deletes
\* the cookie file in the same step and hands over to ManualAuth, and the
\* file stays absent until ManualAuth saves new cookies.
C6_FailedCookieLoginDeletesFile ==
    /\ [][(cookie_verify = "none" /\ cookie_verify' = "failed")
             => (add_calls > 0 /\ ~cookies_file'.exists /\ pc' = "manual_auth")]_vars
    /\ []((cookie_verify = "failed" /\ save_calls = 0) => ~cookies_file.exists)

\* C6 witness: cookies were injected, VerifyLogin failed, the file is gone
\* and ManualAuth is next.
C6_Witness ==
    /\ cookie_verify = "failed"
    /\ add_calls > 0
    /\ ~cookies_file.exists
    /\ pc = "manual_auth"

\* C7 as claimed: whenever login_to_linkedin returns True through ManualAuth,
\* the cookie file holds the cookies of the new session.
C7_ManualLoginAlwaysPersists ==
    (pc = "after_login" /\ login_result = "true" /\ login_via = "manual")
        => (store_call.op = "save" /\ cookies_file = FileOf(store_call.cookies))

\* C7 amended: whenever login_to_linkedin returns True through ManualAuth,
\* save_cookies has run once; when it returned True (the session holds an
\* essential cookie and get_cookies did not fail) the file holds exactly the
\* session's cookies, whatever it held before; otherwise the file is as it
\* was before save_cookies ran.
C7_ManualLoginPersistsWhenSaveSucceeds ==
    (pc = "after_login" /\ login_result = "true" /\ login_via = "manual")
        => /\ store_call.op = "save"
           /\ save_calls = 1
           /\ manual_verify = "ok"
           /\ store_call.ok <=> NamesEssential(store_call.cookies)
           /\ store_call.ok <=> (save_result = "true")
           /\ IF store_call.ok
              THEN cookies_file = FileOf(store_call.cookies)
              ELSE cookies_file = store_call.before

\* C7 witness: a manual login replaced an older, different, non-empty cookie
\* list by the session's cookies.
C7_Witness ==
    /\ pc = "after_login"
    /\ login_result = "true"
    /\ login_via = "manual"
    /\ store_call.op = "save"
    /\ store_call.ok
    /\ store_call.before.exists
    /\ store_call.before.cookies # << >>
    /\ store_call.before.cookies # store_call.cookies
    /\ cookies_file = FileOf(store_call.cookies)

\* C8 as claimed: with the identifier or the secret missing at ManualAuth,
\* login_to_linkedin leaves by raising (it does not return a value), the
\* login page is never loaded and no field is filled.
C8_ConfigErrorRaisedToCaller ==
    (config_error /\ pc = "after_login")
        => /\ login_result = "raised"
           /\ "login" \notin navigations
           /\ fields_filled = {}

\* C8 amended: with the identifier or the secret missing at ManualAuth, the
\* ValueError is raised at once and caught by login_to_linkedin's own except
\* clause: the login page is never loaded, no field is filled, nothing is
\* submitted, verified or saved, and login_to_linkedin ends Failed: it
\* returns False, unless reading driver.current_url in that except clause
\* raises, in which case that fault leaves login_to_linkedin.
C8_ConfigErrorEndsLoginFailed ==
    /\ [][(pc = "manual_auth" /\ (~email \/ ~password))
             => (config_error' /\ pc' = "login_except"
                 /\ navigations' = navigations /\ fields_filled' = fields_filled)]_vars
    /\ [](config_error =>
             /\ ~email \/ ~password
             /\ "login" \notin navigations
             /\ fields_filled = {}
             /\ ~login_submitted
             /\ manual_verify = "none"
             /\ save_calls = 0
             /\ pc \in {"login_except", "after_login", "finally", "done"}
             /\ pc = "after_login" => login_result \in {"false", "raised"})

\* C8 witness: the cookie login failed, the secret is missing, and
\* login_to_linkedin has returned False.
C8_Witness ==
    /\ config_error
    /\ email
    /\ ~password
    /\ cookie_verify = "failed"
    /\ pc = "after_login"
    /\ login_result = "false"
    /\ "login" \notin navigations

\* No step of create_post after the editor chain has run.
NoLaterSteps ==
    /\ submit_tried = << >>
    /\ submit_clicks = 0
    /\ verify_probes = << >>
    /\ log_records = 0

\* C5 as claimed: after exhaustion of the compose-trigger chain or of the
\* editor chain, create_post and post_to_linkedin return False, a screenshot
\* file exists and no later step has run.
C5_ExhaustionAlwaysLeavesScreenshot ==
    (pc = "done" /\ (TriggerExhausted \/ EditorExhausted))
        => /\ create_result = "false"
           /\ result = "false"
           /\ screenshots # {}
           /\ NoLaterSteps
           /\ TriggerExhausted => (editor_tried = << >> /\ injected = 0)

\* C5 amended: after exhaustion of the compose-trigger chain or of the editor
\* chain, post_to_linkedin returns False and no later step has run (no
\* submit click, no success verification, no log record; after trigger
\* exhaustion no editor lookup and no content injection).  create_post
\* returns False, unless reading driver.current_url in its except clause
\* raises, and then that fault leaves create_post.  A screenshot file is
\* created unless the diagnostic calls themselves raise: the screenshot is
\* missing only when driver.current_url or save_screenshot raised in the
\* except clause (and, after trigger exhaustion, the save_screenshot of
\* line 258 raised as well).
C5_ExhaustionFailsRun ==
    /\ (TriggerExhausted \/ EditorExhausted)
          => /\ NoLaterSteps
             /\ injected = 0
             /\ pc \in {"post_except", "after_create", "finally", "done"}
             /\ result # "true"
             /\ create_result \in {"none", "false", "raised"}
             /\ create_result = "raised" <=>
                   (pc # "post_except" /\ "current_url" \in diag_faults)
             /\ TriggerExhausted =>
                   /\ editor_tried = << >>
                   /\ ("pre_post_error" \in screenshots) <=> ("pre_screenshot" \notin diag_faults)
    /\ (pc = "done" /\ (TriggerExhausted \/ EditorExhausted))
          => /\ result = "false"
             /\ create_result \in {"false", "raised"}
             /\ ("error_screenshot" \in screenshots) <=>
                   (diag_faults \cap {"current_url", "error_screenshot"} = {})
             /\ diag_faults = {} => (screenshots # {} /\ create_result = "false")

\* C5 witness: the editor chain was exhausted after the trigger was found;
\* the run ended with the error screenshot written and False returned.
C5_Witness ==
    /\ pc = "done"
    /\ trigger_found > 0
    /\ EditorExhausted
    /\ screenshots = {"error_screenshot"}
    /\ create_result = "false"
    /\ result = "false"

\* C9: once login_to_linkedin has ended Failed (returned False or raised),
\* create_post is never started, no log record is written, and
\* post_to_linkedin returns False.
C9_FailedLoginAbortsRun ==
    (login_result \in {"false", "raised"})
        => /\ pc \in {"after_login", "finally", "done"}
           /\ create_result = "none"
           /\ trigger_tried = << >>
           /\ editor_tried = << >>
           /\ injected = 0
           /\ submit_clicks = 0
           /\ log_records = 0
           /\ result # "true"
           /\ pc = "done" => result = "false"

\* C9 witness: the manual login was submitted, VerifyLogin failed, and the
\* run has ended with False.
C9_Witness ==
    /\ pc = "done"
    /\ login_result = "false"
    /\ manual_verify = "failed"
    /\ login_submitted
    /\ result = "false"

output_lines(text) == IF text = << >> THEN << >> ELSE split(text, LF)

\* The lines of the input that took the given branch of the loop.
input_lines(text, ks, kind) ==
    {lines_of(text)[k] : k \in {j \in 1..Len(ks) : ks[j] = kind}}

\* A line with its white space taken out.
RECURSIVE squeeze(_)
squeeze(s) ==
    IF s = << >> THEN << >>
    ELSE IF Head(s) = " " THEN squeeze(Tail(s))
    ELSE << Head(s) >> \o squeeze(Tail(s))

\* s occurs in t as a contiguous run.
occurs_in(s, t) ==
    \E k \in 0..(Len(t) - Len(s)) : SubSeq(t, k + 1, k + Len(s)) = s

\* C11: for every input that has hashtag lines, wherever they stand, the
\* returned text ends with one last line that holds the hashtags: the last
\* line starts with '#', it holds every hashtag line of the input (white
\* space aside), and no line before it starts with '#'.
C11_HashtagsEndUpInLastLine ==
    (fpc = "formatted" /\ input_lines(content, kinds, "hashtag") # {}) =>
        LET out == output_lines(formatted)
        IN  /\ out # << >>
            /\ startswith(out[Len(out)], << "#" >>)
            /\ \A h \in input_lines(content, kinds, "hashtag") :
                   occurs_in(squeeze(h), squeeze(out[Len(out)]))
            /\ \A k \in 1..(Len(out) - 1) : ~startswith(out[k], << "#" >>)

\* A bullet line as the text shows it: it starts with a dash or a bullet.
bullet_start(line) ==
    \/ startswith(line, << "-" >>)
    \/ startswith(line, << Glyph >>)
    \/ startswith(line, << Bullet >>)

only_bullet_lines(ls) == ls # << >> /\ \A k \in 1..Len(ls) : bullet_start(ls[k])

\* C12 as claimed: every input made only of bullet lines gives exactly one
\* section, which holds all the lines in their original order.
C12_BulletLinesMakeOneSection ==
    (fpc = "formatted" /\ only_bullet_lines(lines_of(content))) =>
        formatted_sections = << join(lines_of(content), << LF >>) >>

\* C12, amended: an input made only of bullet lines gives exactly one
\* section with all the lines in order when no line starts with '---', no
\* line is a header by the header test, and no line starting with the
\* bullet character U+2022 is directly followed by one starting with a dash
\* or with the literal of line 531.
C12_PlainBulletRunIsOneSection ==
    LET ls == lines_of(content)
    IN  (/\ fpc = "formatted"
         /\ only_bullet_lines(ls)
         /\ \A k \in 1..Len(ls) :
               /\ ~startswith(ls[k], << "-", "-", "-" >>)
               /\ ~is_header(ls[k], k - 1)
         /\ \A k \in 1..(Len(ls) - 1) :
               startswith(ls[k], << Bullet >>) => startswith(ls[k + 1], << Bullet >>))
        => formatted_sections = << join(ls, << LF >>) >>

\* C12 witness: a two-line list, the first bullet written with the literal
\* of line 531 and the second with a dash, came out as one section.
C12_Witness ==
    /\ fpc = "formatted"
    /\ Len(lines_of(content)) = 2
    /\ startswith(lines_of(content)[1], << Glyph >>)
    /\ startswith(lines_of(content)[2], << "-" >>)
    /\ formatted_sections = << join(lines_of(content), << LF >>) >>

\* The header, bullet and hashtag lines of a text, as the loop of
\* format_post would class them, white space aside.
marked_lines(text) ==
    LET ls == lines_of(text)
    IN  {squeeze(ls[k]) :
            k \in {j \in 1..Len(ls) :
                      kind_of(ls[j], j - 1) \in {"header", "bullet", "hashtag"}}}

\* C13 as claimed: the header, bullet and hashtag lines of the returned
\* text are those of the input, white space aside.
C13_MarkedLinesSurvive ==
    fpc = "formatted" => marked_lines(formatted) = marked_lines(content)

\* Every '#' of the text stands in its last line, which starts with '#',
\* and no line starts with '---'.
hashtags_last(ls) ==
    \A k \in 1..Len(ls) :
        /\ ~startswith(ls[k], << "-", "-", "-" >>)
        /\ contains(ls[k], "#") => (k = Len(ls) /\ startswith(ls[k], << "#" >>))

\* C13, amended: the header, bullet and hashtag lines of the returned text
\* are those of the input, white space aside, for every input in which no
\* line starts with '---' and '#' occurs, if at all, only in the last
\* line, which then starts with '#'.
C13_MarkedLinesSurviveWhenHashtagsLast ==
    (fpc = "formatted" /\ hashtags_last(lines_of(content))) =>
        marked_lines(formatted) = marked_lines(content)

\* C13 witness: a text with a bullet line and a closing hashtag line came
\* back with both.
C13_Witness ==
    /\ fpc = "formatted"
    /\ hashtags_last(lines_of(content))
    /\ "bullet" \in {kinds[k] : k \in 1..Len(kinds)}
    /\ "hashtag" \in {kinds[k] : k \in 1..Len(kinds)}
    /\ marked_lines(formatted) = marked_lines(content)

\* C14 as claimed: format_post is not idempotent, among the texts it can be
\* handed there is an input x for which format_post(format_post(x)) differs
\* from format_post(x).
C14_SomeInputChangesOnSecondPass ==
    fpc = "input" =>
        \E x \in Texts : format_post(format_post(x)) # format_post(x)

\* C14, amended: format_post is idempotent on the text it returns; a second
\* pass can class a line differently but returns the same text.
C14_SecondPassReturnsSameText ==
    fpc = "reformatted" => reformatted = formatted

\* C14 witness: the second pass saw a header where the first pass saw
\* none (the hashtag step had put an upper-case tag on a line of its own),
\* and returned the same text.
C14_Witness ==
    /\ fpc = "reformatted"
    /\ formatted # content
    /\ \A k \in 1..Len(kinds) : kinds[k] # "header"
    /\ \E k \in 1..Len(lines_of(formatted)) :
          line_kinds(lines_of(formatted))[k] = "header"
    /\ reformatted = formatted

\* The class the claimed priority rule gives a line, read in the code's
\* favour wherever the wording leaves room: a colon anywhere counts as a
\* header marker, and a dash and the literal of line 531 count as bullet
\* glyphs next to the bullet character itself.
claimed_kind(line, i) ==
    IF \/ contains(line, Marker)
       \/ contains(line, ":")
       \/ (i > 0 /\ isupper(line) /\ len(line) <= HeaderMaxLen)
    THEN "header"
    ELSE IF bullet_start(line) THEN "bullet"
    ELSE IF startswith(line, << "#" >>) THEN "hashtag"
    ELSE "plain"

\* C16: every line the loop does not skip is classed by the fixed priority
\* rule: header when it holds a header marker, ends with a colon or is a
\* non-first upper-case line of at most 50 characters; otherwise bullet
\* when it starts with the bullet glyph; otherwise hashtag when it starts
\* with '#'; otherwise plain.
C16_LinesClassedByPriorityRule ==
    fpc = "formatted" =>
        \A k \in 1..Len(kinds) :
            kinds[k] # "skipped" => kinds[k] = claimed_kind(lines_of(content)[k], k - 1)

\* ------------------------------------------------- post_to_linkedin claims
\* C15 as stated: a run writes exactly one log record when create_post
\* returned success and none when login or create_post failed, and a record
\* exists only once create_post has returned success.
C15_OneLogRecordIffPublished ==
    /\ pc = "done" => log_records = (IF create_result = "true" THEN 1 ELSE 0)
    /\ log_records > 0 => (login_result = "true" /\ create_result = "true")
    /\ log_records <= 1

\* C15, amended: a run leaves exactly one log file when create_post returned
\* success and open() of the log write succeeded, and none when login or
\* create_post failed or when os.makedirs or open raised; a file exists only
\* once login_to_linkedin and create_post have returned success; a run that
\* returns True has written its one record completely, and a log write that
\* raised makes the run return False.
C15_OneLogRecordWhenWriteCompletes ==
    /\ pc = "done" =>
          log_records = (IF create_result = "true" /\ log_fault # "no_file" THEN 1 ELSE 0)
    /\ log_records > 0 => (login_result = "true" /\ create_result = "true")
    /\ log_records <= 1
    /\ result = "true" => (log_records = 1 /\ log_fault = "none")
    /\ log_fault # "none" => (create_result = "true" /\ result = "false")

\* C15 witness: a run that logged in, published with a visible success
\* landmark and returned with its one log record written completely.
C15_Witness ==
    /\ pc = "done"
    /\ login_result = "true"
    /\ create_result = "true"
    /\ verified > 0
    /\ log_fault = "none"
    /\ log_records = 1

\* A locator chain's record: the locators were tried in the listed order,
\* each at most once, and the one that succeeded, if any, is the last tried.
InListedOrder(tried, found) ==
    /\ Len(tried) <= NumLocators
    /\ \A i \in 1..Len(tried) : tried[i] = i
    /\ found # 0 => (tried # << >> /\ found = tried[Len(tried)])
    /\ found = 0 => Len(tried) \in {0, NumLocators}

\* C17: for the compose trigger, the editor and the submit control, the
\* locators are tried in their fixed listed order, each at most once in a
\* run, and the first that succeeds wins: none is tried after it and none
\* is tried again.
C17_LocatorsTriedInOrderOnce ==
    /\ InListedOrder(trigger_tried, trigger_found)
    /\ InListedOrder(editor_tried, editor_found)
    /\ InListedOrder(submit_tried, submit_found)

\* C17 witness: the trigger was found by its second locator, the editor by
\* its third and the submit control by its first.
C17_Witness ==
    /\ trigger_tried = << 1, 2 >>
    /\ trigger_found = 2
    /\ editor_tried = << 1, 2, 3 >>
    /\ editor_found = 3
    /\ submit_tried = << 1 >>
    /\ submit_found = 1

\* create_post has ended through its except clause.
CreatePostFaulted == create_result \in {"false", "raised"}

\* C18 as claimed: whenever a fault was raised inside create_post, the
\* error screenshot and the first 1000 characters of the page markup have
\* been captured and create_post has returned failure.
C18_FaultAlwaysLeavesDiagnostics ==
    CreatePostFaulted =>
        /\ create_result = "false"
        /\ "error_screenshot" \in screenshots
        /\ markup_printed

\* C18, amended: after a fault inside create_post the except clause reads
\* the current URL, saves the screenshot and prints the markup, in that
\* order; create_post returns failure unless the URL read raised, the
\* screenshot exists unless the URL read or save_screenshot raised, and
\* the markup was printed unless one of the three calls raised.
C18_DiagnosticsUnlessTheyFault ==
    CreatePostFaulted =>
        /\ create_result = "raised" <=> "current_url" \in diag_faults
        /\ "error_screenshot" \in screenshots <=>
              diag_faults \cap {"current_url", "error_screenshot"} = {}
        /\ markup_printed <=>
              diag_faults \cap {"current_url", "error_screenshot", "page_source"} = {}

\* C18 witness: the content injection raised after the editor was found,
\* both diagnostics were captured and create_post returned failure.
C18_Witness ==
    /\ editor_found > 0
    /\ submit_tried = << >>
    /\ create_result = "false"
    /\ "error_screenshot" \in screenshots
    /\ markup_printed

\* ------------------------------------------------ login_to_linkedin claims
\* The manual login has left no trace.
NoManualAuth ==
    /\ "login" \notin navigations
    /\ fields_filled = {}
    /\ ~login_submitted
    /\ ~config_error
    /\ manual_verify = "none"
    /\ save_calls = 0

\* C20: when the stored cookies were loaded and the VerifyLogin that follows
\* succeeds, login_to_linkedin ends Authenticated without entering
\* ManualAuth, whether or not identifier and secret are configured: the
\* login page is never visited, and the cookie file is neither rewritten
\* nor deleted (the file changes only in a step in which a cookie login
\* fails its verification or save_cookies is called).
C20_CookieLoginSkipsManualAuth ==
    /\ [](cookie_verify = "ok" =>
            /\ pc = "after_login"
            /\ login_result = "true"
            /\ login_via = "cookies"
            /\ NoManualAuth)
    /\ [][cookies_file' # cookies_file =>
            (cookie_verify' = "failed" \/ save_calls' > save_calls)]_vars

\* C20 witness: neither identifier nor secret is configured, a stored
\* cookie was injected and verified, and the login ended Authenticated with
\* the file still in place.
C20_Witness ==
    /\ ~email
    /\ ~password
    /\ add_calls > 0
    /\ cookie_verify = "ok"
    /\ login_result = "true"
    /\ cookies_file.exists
    /\ cookies_file.cookies # << >>

\* -------------------------------------------------- search_internet claims
\* C19: when _search_serpapi has ended and the last answer it got was an
\* HTTP 429, it has made max_retries requests with waits of 1, 2, 4, 8 and
\* 16 seconds after them and has returned an empty list instead of
\* raising, and search_internet goes on to return the other sources' text.
C19_RateLimitRetriedThenEmptyList ==
    (spc \notin {"idle", "serp"} /\ last_status = RateLimited) =>
        /\ serp_result = "list"
        /\ serp_items = 0
        /\ serp_calls = max_retries
        /\ waits = [i \in 1..max_retries |-> 2 ^ (i - 1)]
        /\ spc = "done" => search_result = "text"

\* C21: a run of post_to_linkedin that reports failure has not clicked the
\* submit control; every run in which the submit control was clicked
\* returns True.
C21_FailureMeansNothingSubmitted ==
    /\ result = "false" => submit_clicks = 0
    /\ (pc = "done" /\ submit_clicks > 0) => result = "true"

\* C22: every browser that get_driver has launched on the instance, the
\* first one included, was launched with the same options, and these hold
\* the '--headless' flag.
C22_EveryBrowserLaunchedHeadless ==
    \A i \in 1..Len(browsers) :
        /\ \E k \in 1..Len(browsers[i].options) : browsers[i].options[k] = "--headless"
        /\ \A j \in 1..Len(browsers) : browsers[j].options = browsers[i].options

====
